---------------------------- MODULE Spec2Model ----------------------------
(***************************************************************************)
(* State-machine model of src/app.py (moodsense backend).                  *)
(*                                                                         *)
(* The store is the two tables Employee and VibeEntry.  The two request    *)
(* handlers are submit_vibe (POST /api/submit-vibe) and get_hr_dashboard   *)
(* (GET /api/hr-dashboard).  Spec runs the handlers one request at a time; *)
(* SpecConc runs submit_vibe as the separate database steps it consists of *)
(* (lookup, create-and-commit, append-and-commit), interleaved between     *)
(* requests.                                                               *)
(*                                                                         *)
(* Floats (sentiment polarity) are integers in hundredths.  Timestamps are *)
(* integer ticks of a clock that advances with every committed insert, so  *)
(* no two entries of an employee share a timestamp (seed_data spaces them  *)
(* a day apart, and requests are served at different instants).            *)
(***************************************************************************)
EXTENDS Integers, Sequences, FiniteSets, TLC

VARIABLES
    employees,  \* table Employee: sequence of rows, row i has id i
    entries,    \* table VibeEntry: sequence of rows, row i has id i
    now,        \* datetime.utcnow(), in ticks
    request,    \* request.json of the request handled last (Spec)
    response,   \* what the handler handled last returned (Spec)
    created,    \* history: Submits that created their employee, with no
                \* later Submit under the same name
    inflight    \* SpecConc: the submit_vibe requests being served

vars == <<employees, entries, now, request, response, created, inflight>>

----------------------------------------------------------------------------
(* Bounds of the model *)

\* number of submit_vibe requests served in a behaviour
MaxSubmits == 2
\* days of history seed_data writes per employee in the model (range(7))
SeedDays == 2
\* analyze_risk is checked over -EnergyRange .. EnergyRange
EnergyRange == 150

(* Program constants *)

\* timedelta(days=7): base_date lies this many ticks before now
SeedBackDays == 7
\* formatted_history[-3:]
Window == 3
\* avg_battery of an employee without history
DefaultAvg == 50
\* data.get('battery', 50)
DefaultBattery == 50
RiskHigh == 30
RiskMonitor == 60

None == 0

----------------------------------------------------------------------------
(* JSON values of the request body *)

JAbsent == [kind |-> "absent", int |-> 0, str |-> ""]
JNull == [kind |-> "null", int |-> 0, str |-> ""]
JInt(n) == [kind |-> "int", int |-> n, str |-> ""]
JStr(s) == [kind |-> "str", int |-> 0, str |-> s]

\* dict.get(key, default): the default only when the key is absent; an
\* explicit null comes back as None
Get(field, default) == IF field.kind = "absent" THEN default ELSE field


\* The characters of the strings that reach int(): TLC cannot index a string.
Chars(s) ==
    CASE s = "30" -> <<"3", "0">>
      [] s = "-40" -> <<"-", "4", "0">>
      [] s = "abc" -> <<"a", "b", "c">>
      [] OTHER -> <<>>

Digits == <<"0", "1", "2", "3", "4", "5", "6", "7", "8", "9">>
IsDigit(c) == \E d \in 1..10 : Digits[d] = c
DigitValue(c) == (CHOOSE d \in 1..10 : Digits[d] = c) - 1

RECURSIVE DigitsValue(_, _)
\* the value of a sequence of decimal digits, most significant first
DigitsValue(cs, acc) ==
    IF cs = <<>> THEN acc
    ELSE DigitsValue(Tail(cs), 10 * acc + DigitValue(Head(cs)))

\* int(s) for a str: an optional sign, then one or more decimal digits;
\* anything else raises ValueError
ParseInt(cs) ==
    LET signed == cs # <<>> /\ Head(cs) \in {"+", "-"}
        body == IF signed THEN Tail(cs) ELSE cs
        good == body # <<>> /\ \A k \in 1..Len(body) : IsDigit(body[k])
        mag == IF good THEN DigitsValue(body, 0) ELSE 0
    IN  [ok |-> good,
         value |-> IF signed /\ Head(cs) = "-" THEN 0 - mag ELSE mag]

\* int(data.get('battery', 50)): an int is itself, a str is parsed, None
\* raises TypeError
ToInt(j) ==
    CASE j.kind = "int" -> [ok |-> TRUE, value |-> j.int]
      [] j.kind = "str" -> ParseInt(Chars(j.str))
      [] OTHER -> [ok |-> FALSE, value |-> 0]

\* TextBlob's lexicon score of the modelled comments, in hundredths.  The
\* lexicon is the library's: the scores here stand for whatever it returns,
\* and no property below reads more of them than zero or not zero.
Lexicon(text) ==
    CASE text = "great" -> 80
      [] text = "Worried about upcoming deadlines." -> 0
      [] OTHER -> 0

\* TextBlob(vent_text).sentiment.polarity: TextBlob raises TypeError on
\* anything but a str; the empty text scores 0.0
Polarity(j) ==
    IF j.kind = "str"
    THEN [ok |-> TRUE, value |-> IF j.str = "" THEN 0 ELSE Lexicon(j.str)]
    ELSE [ok |-> FALSE, value |-> 0]

----------------------------------------------------------------------------
(* The tables *)

Employee(id, name, role, dept, static_driver) ==
    [id |-> id, name |-> name, role |-> role, dept |-> dept,
     static_driver |-> static_driver]

VibeEntry(id, emp_id, timestamp, mood, battery, vent_text, sentiment, primary_driver) ==
    [id |-> id, emp_id |-> emp_id, timestamp |-> timestamp, mood |-> mood,
     battery |-> battery, vent_text |-> vent_text, sentiment |-> sentiment,
     primary_driver |-> primary_driver]

\* Employee.query.filter_by(name=user_name).first(): the id of the row, or
\* None
FindEmployee(emps, user_name) ==
    LET hits == {i \in 1..Len(emps) : emps[i].name = user_name}
    IN  IF hits = {} THEN None
        ELSE CHOOSE i \in hits : \A k \in hits : i <= k


----------------------------------------------------------------------------
(* Helper logic and the dashboard *)

\* analyze_risk with the lower thresholds taken inclusive
analyze_risk_inclusive(avg_battery) ==
    IF avg_battery <= RiskHigh THEN "High Risk"
    ELSE IF avg_battery <= RiskMonitor THEN "Monitor"
    ELSE "Stable"

analyze_risk(avg_battery) ==
    IF avg_battery < RiskHigh THEN "High Risk"
    ELSE IF avg_battery < RiskMonitor THEN "Monitor"
    ELSE "Stable"

RECURSIVE SumBattery(_)
\* sum(d['battery'] for d in recent)
SumBattery(hist) ==
    IF hist = <<>> THEN 0 ELSE Head(hist).battery + SumBattery(Tail(hist))

RECURSIVE SumSeq(_)
\* sum(batteries)
SumSeq(xs) == IF xs = <<>> THEN 0 ELSE Head(xs) + SumSeq(Tail(xs))

\* int(total / count): the true quotient, cut toward zero
IntTrunc(total, count) ==
    IF total >= 0 THEN total \div count ELSE 0 - ((0 - total) \div count)

RECURSIVE InsertByTimestamp(_, _)
\* `e` put into the ascending sequence `sorted`, after the rows that are not
\* later than it
InsertByTimestamp(sorted, e) ==
    IF sorted = <<>> THEN <<e>>
    ELSE IF Head(sorted).timestamp <= e.timestamp
         THEN <<Head(sorted)>> \o InsertByTimestamp(Tail(sorted), e)
         ELSE <<e>> \o sorted

RECURSIVE OrderByTimestamp(_)
\* .order_by(VibeEntry.timestamp.asc())
OrderByTimestamp(rows) ==
    IF rows = <<>> THEN <<>>
    ELSE InsertByTimestamp(OrderByTimestamp(SubSeq(rows, 1, Len(rows) - 1)),
                           rows[Len(rows)])

\* VibeEntry.query.filter_by(emp_id=emp.id).order_by(...).all()
EntriesOf(ents, emp_id) ==
    OrderByTimestamp(SelectSeq(ents, LAMBDA e : e.emp_id = emp_id))

\* e.timestamp.isoformat(): the text of the timestamp
IsoFormat(t) == <<"iso8601", t>>

\* one item of formatted_history
FormatEntry(e) ==
    [timestamp |-> IsoFormat(e.timestamp), battery |-> e.battery,
     sentiment |-> e.sentiment, primary_driver |-> e.primary_driver,
     vent_text |-> e.vent_text]

\* Recent without the slice: the whole history
RecentWholeHistory(formatted_history) == formatted_history

\* formatted_history[-3:]
Recent(formatted_history) ==
    SubSeq(formatted_history,
           IF Len(formatted_history) > Window
           THEN Len(formatted_history) - Window + 1 ELSE 1,
           Len(formatted_history))

\* avg_battery of an employee with history
AvgBattery(formatted_history) ==
    LET recent == Recent(formatted_history)
    IN  IntTrunc(SumBattery(recent), Len(recent))

\* CurrentDriver with the column's default where there is no history
CurrentDriverOrUnknown(emp, formatted_history) ==
    IF formatted_history # <<>>
    THEN formatted_history[Len(formatted_history)].primary_driver
    ELSE "Unknown"

\* current_driver, with or without history
CurrentDriver(emp, formatted_history) ==
    IF formatted_history # <<>>
    THEN formatted_history[Len(formatted_history)].primary_driver
    ELSE emp.static_driver

\* the item of employee_list for `emp`
EmployeeItem(emp, ents) ==
    LET rows == EntriesOf(ents, emp.id)
        formatted_history == [k \in 1..Len(rows) |-> FormatEntry(rows[k])]
        avg_battery == IF formatted_history # <<>>
                       THEN AvgBattery(formatted_history) ELSE DefaultAvg
        current_driver == CurrentDriver(emp, formatted_history)
    IN  [id |-> emp.id, name |-> emp.name, role |-> emp.role,
         dept |-> emp.dept, risk_status |-> analyze_risk(avg_battery),
         avg_battery |-> avg_battery, primary_driver |-> current_driver,
         history |-> formatted_history]

RECURSIVE DeptMap(_)
\* dept_map after the loop over the employees: the departments in the order
\* they were first met, each with the avg_battery values of its employees
DeptMap(employee_list) ==
    IF employee_list = <<>> THEN <<>>
    ELSE LET before == DeptMap(SubSeq(employee_list, 1, Len(employee_list) - 1))
             item == employee_list[Len(employee_list)]
             at == {k \in 1..Len(before) : before[k].name = item.dept}
         IN  IF at = {}
             THEN Append(before, [name |-> item.dept,
                                  batteries |-> <<item.avg_battery>>])
             ELSE [k \in 1..Len(before) |->
                     IF k \in at
                     THEN [before[k] EXCEPT
                             !.batteries = Append(@, item.avg_battery)]
                     ELSE before[k]]

\* DeptEnergy with round() in place of int()
DeptEnergyRounded(batteries) ==
    (2 * SumSeq(batteries) + Len(batteries)) \div (2 * Len(batteries))

\* avg = int(sum(batteries) / len(batteries))
DeptEnergy(batteries) == IntTrunc(SumSeq(batteries), Len(batteries))

\* the body of get_hr_dashboard's response
HrDashboard(emps, ents) ==
    LET employee_list == [i \in 1..Len(emps) |-> EmployeeItem(emps[i], ents)]
        dept_map == DeptMap(employee_list)
        final_dept_data == [k \in 1..Len(dept_map) |->
                              [name |-> dept_map[k].name,
                               energy |-> DeptEnergy(dept_map[k].batteries)]]
    IN  [employees |-> employee_list, department_data |-> final_dept_data]


----------------------------------------------------------------------------
(* Seeding *)

teams ==
    << <<"Manu Sharma", "Senior Dev", "Engineering">>,
       <<"Ishika Agarwal", "UX Lead", "Design">>,
       <<"Gurveer Singh", "Product Owner", "Product">>,
       <<"Puja Rao", "Sales Rep", "Sales">>,
       <<"Alex Chen", "Backend Dev", "Engineering">>,
       <<"Sarah Miller", "HR Manager", "HR">>,
       <<"David Park", "Data Analyst", "Product">>,
       <<"Elena Rodriguez", "QA Lead", "Engineering">>,
       <<"Sam Wilson", "Content Strategist", "Design">>,
       <<"Anita Desai", "Account Manager", "Sales">> >>

\* the rows of `teams` the model's seed_data loops over: the first of the ten
SeededTeams == SubSeq(teams, 1, 1)
SeedTeams == Len(SeededTeams)

\* what random.choice(drivers) may return, over two of the five drivers
SeedDrivers == {"Deadlines", "Workload"}
\* what random.randint(25, 95) may return, over the two ends of the range
SeedBatteries == {25, 95}
\* what random.choice(sample_vents) and random.choice(moods) return here
SeedVent == "Worried about upcoming deadlines."
SeedMood == "Tired"

\* the Employee row seed_data adds for teams[i]
SeedEmployee(i, driver) ==
    Employee(i, SeededTeams[i][1], SeededTeams[i][2], SeededTeams[i][3], driver)

\* SeedEntry with a driver of its own in place of the employee's
SeedEntryOwnDriver(id, emp, i, today, battery) ==
    VibeEntry(id, emp.id, today - SeedBackDays + i, SeedMood, battery,
              SeedVent, Polarity(JStr(SeedVent)).value, "Deadlines")

\* the VibeEntry row seed_data adds for employee `emp` and day i
SeedEntry(id, emp, i, today, battery) ==
    LET base_date == today - SeedBackDays
        entry_date == base_date + i
    IN  VibeEntry(id, emp.id, entry_date, SeedMood, battery, SeedVent,
                  Polarity(JStr(SeedVent)).value, emp.static_driver)

----------------------------------------------------------------------------
(* Requests and responses *)

VentTexts == {JStr("great"), JNull}
PressureSources == {JStr("Team"), JStr("Workload")}
Batteries == {JInt(90), JStr("-40"), JStr("abc")}

\* the bodies of the POST requests: check-ins of the seeded employee, and
\* check-ins that leave userName out (so "Anonymous"), from either of two
\* departments that differ in case only
Payloads ==
    [userName : {JStr("Manu Sharma")}, role : {JAbsent},
     dept : {JStr("Engineering")}, ventText : VentTexts,
     pressureSource : PressureSources, mood : {JStr("Tired")},
     battery : Batteries]
    \cup
    [userName : {JAbsent}, role : {JAbsent},
     dept : {JStr("Engineering"), JStr("engineering")}, ventText : VentTexts,
     pressureSource : PressureSources, mood : {JStr("Tired")},
     battery : Batteries]

\* a GET request, or no request yet: no body
NoBody ==
    [userName |-> JAbsent, role |-> JAbsent, dept |-> JAbsent,
     ventText |-> JAbsent, pressureSource |-> JAbsent, mood |-> JAbsent,
     battery |-> JAbsent]

NoDashboard == [employees |-> <<>>, department_data |-> <<>>]

NoResponse ==
    [kind |-> "none", status |-> 0, sentiment |-> 0, dashboard |-> NoDashboard]
\* jsonify({"status": "success", "sentiment": sentiment})
SubmitOk(sentiment) ==
    [kind |-> "submit", status |-> 200, sentiment |-> sentiment,
     dashboard |-> NoDashboard]
\* an exception left the handler: Flask answers 500
ServerError(kind) ==
    [kind |-> kind, status |-> 500, sentiment |-> 0, dashboard |-> NoDashboard]
\* jsonify({"employees": ..., "department_data": ...})
DashboardOk(dashboard) ==
    [kind |-> "dashboard", status |-> 200, sentiment |-> 0,
     dashboard |-> dashboard]

----------------------------------------------------------------------------
(* submit_vibe, piece by piece *)

\* the fields submit_vibe reads from the body
UserName(data) == Get(data.userName, JStr("Anonymous")).str
Role(data) == Get(data.role, JStr("Team Member")).str
Dept(data) == Get(data.dept, JStr("General")).str
VentText(data) == Get(data.ventText, JStr(""))
PrimaryDriver(data) == Get(data.pressureSource, JStr("Unknown")).str
Mood(data) == data.mood.str
Battery(data) == ToInt(Get(data.battery, JInt(DefaultBattery)))

\* Employee(name=..., role=..., dept=..., static_driver=primary_driver)
NewEmployee(emps, data) ==
    Employee(Len(emps) + 1, UserName(data), Role(data), Dept(data),
             PrimaryDriver(data))

\* NewEntry with the default battery in place of the submitted one
NewEntryDefaultBattery(ents, emp_id, today, data) ==
    VibeEntry(Len(ents) + 1, emp_id, today, Mood(data), DefaultBattery,
              VentText(data).str, Polarity(VentText(data)).value,
              PrimaryDriver(data))

\* VibeEntry(emp_id=..., mood=..., battery=..., ...), timestamp defaulted to
\* datetime.utcnow
NewEntry(ents, emp_id, today, data) ==
    VibeEntry(Len(ents) + 1, emp_id, today, Mood(data), Battery(data).value,
              VentText(data).str, Polarity(VentText(data)).value,
              PrimaryDriver(data))

\* UpdateDriver left out
UpdateDriverSkipped(emps, target, data) == emps

\* target_emp.static_driver = primary_driver
UpdateDriver(emps, target, data) ==
    [emps EXCEPT ![target].static_driver = PrimaryDriver(data)]


----------------------------------------------------------------------------
(* The initial state: create_all() and seed_data() on an empty database *)

Init ==
    \E driver \in [1..SeedTeams -> SeedDrivers],
       battery \in [1..SeedTeams * SeedDays -> SeedBatteries] :
        LET seeded == [i \in 1..SeedTeams |-> SeedEmployee(i, driver[i])]
        IN  /\ employees = seeded
            /\ entries =
                  [k \in 1..SeedTeams * SeedDays |->
                     SeedEntry(k, seeded[((k - 1) \div SeedDays) + 1],
                               (k - 1) % SeedDays, SeedBackDays, battery[k])]
            /\ now = SeedBackDays
            /\ request = NoBody
            /\ response = NoResponse
            /\ created = {}
            /\ inflight = <<>>

\* the entries table may take another row
RoomForEntry == Len(entries) < SeedTeams * SeedDays + MaxSubmits

----------------------------------------------------------------------------
(* The handlers, one request at a time *)

\* POST /api/submit-vibe with body `data`
SubmitVibe(data) ==
    LET scored == Polarity(VentText(data))
        found == FindEmployee(employees, UserName(data))
        \* after "if not target_emp: ... db.session.commit()"
        committed == IF found = None
                     THEN Append(employees, NewEmployee(employees, data))
                     ELSE employees
        target == IF found = None THEN Len(committed) ELSE found
    IN  /\ RoomForEntry
        /\ request' = data
        /\ inflight' = inflight
        /\ IF ~scored.ok
           THEN \* TextBlob raised: nothing was written yet
                /\ response' = ServerError("submit")
                /\ UNCHANGED <<employees, entries, now>>
                /\ created' = {c \in created : c.name # UserName(data)}
           ELSE IF ~Battery(data).ok
           THEN \* int() raised: the new employee, if any, is committed
                /\ response' = ServerError("submit")
                /\ employees' = committed
                /\ UNCHANGED <<entries, now>>
                /\ created' = {c \in created : c.name # UserName(data)}
           ELSE /\ response' = SubmitOk(scored.value)
                /\ employees' = UpdateDriver(committed, target, data)
                /\ entries' = Append(entries, NewEntry(entries, target, now, data))
                /\ now' = now + 1
                /\ created' =
                     {c \in created : c.name # UserName(data)} \cup
                     (IF found = None
                      THEN {[name |-> UserName(data),
                             battery |-> Battery(data).value,
                             driver |-> PrimaryDriver(data)]}
                      ELSE {})

\* GET /api/hr-dashboard
GetHrDashboard ==
    /\ request' = NoBody
    /\ response' = DashboardOk(HrDashboard(employees, entries))
    /\ UNCHANGED <<employees, entries, now, created, inflight>>

Next ==
    \/ \E data \in Payloads : SubmitVibe(data)
    \/ GetHrDashboard

Spec == Init /\ [][Next]_vars


----------------------------------------------------------------------------
(* submit_vibe under concurrent requests: each request takes its database  *)
(* steps one at a time, and the steps of different requests interleave     *)

\* a request that has read its body and scored the comment (lines 161-170)
Started(data) ==
    LET scored == Polarity(VentText(data))
    IN  [data |-> data, sentiment |-> scored.value,
         pc |-> IF scored.ok THEN "lookup" ELSE "done",
         status |-> IF scored.ok THEN 0 ELSE 500,
         target_emp |-> None, new_entry |-> None]

ConcBegin(data) ==
    /\ Len(inflight) < MaxSubmits
    /\ inflight' = Append(inflight, Started(data))
    /\ UNCHANGED <<employees, entries, now, request, response, created>>

\* target_emp = Employee.query.filter_by(name=user_name).first()
ConcLookup(i) ==
    LET found == FindEmployee(employees, UserName(inflight[i].data))
    IN  /\ inflight[i].pc = "lookup"
        /\ inflight' = [inflight EXCEPT
                          ![i].target_emp = found,
                          ![i].pc = IF found = None THEN "create" ELSE "append"]
        /\ UNCHANGED <<employees, entries, now, request, response, created>>

\* db.session.add(target_emp); db.session.commit(): name is unique, so the
\* INSERT of a name that is in the table by now raises IntegrityError
ConcCreate(i) ==
    LET data == inflight[i].data
        taken == FindEmployee(employees, UserName(data)) # None
    IN  /\ inflight[i].pc = "create"
        /\ IF taken
           THEN /\ inflight' = [inflight EXCEPT ![i].pc = "done",
                                                ![i].status = 500]
                /\ UNCHANGED employees
           ELSE /\ employees' = Append(employees, NewEmployee(employees, data))
                /\ inflight' = [inflight EXCEPT
                                  ![i].target_emp = Len(employees) + 1,
                                  ![i].pc = "append"]
        /\ UNCHANGED <<entries, now, request, response, created>>

\* new_entry = VibeEntry(...); target_emp.static_driver = primary_driver;
\* db.session.add(new_entry); db.session.commit()
ConcAppend(i) ==
    LET data == inflight[i].data
        target == inflight[i].target_emp
    IN  /\ inflight[i].pc = "append"
        /\ IF ~Battery(data).ok
           THEN /\ inflight' = [inflight EXCEPT ![i].pc = "done",
                                                ![i].status = 500]
                /\ UNCHANGED <<employees, entries, now>>
           ELSE /\ employees' = UpdateDriver(employees, target, data)
                /\ entries' = Append(entries, NewEntry(entries, target, now, data))
                /\ now' = now + 1
                /\ inflight' = [inflight EXCEPT
                                  ![i].pc = "done", ![i].status = 200,
                                  ![i].new_entry = Len(entries) + 1]
        /\ UNCHANGED <<request, response, created>>

NextConc ==
    \/ \E data \in Payloads : ConcBegin(data)
    \/ \E i \in 1..Len(inflight) : ConcLookup(i)
    \/ \E i \in 1..Len(inflight) : ConcCreate(i)
    \/ \E i \in 1..Len(inflight) : ConcAppend(i)

SpecConc == Init /\ [][NextConc]_vars


----------------------------------------------------------------------------
(* Vocabulary of the properties *)

\* the last response is a dashboard; the tables are as the handler read them
Fetched == response.kind = "dashboard"
Dash == response.dashboard
Items == {Dash.employees[i] : i \in 1..Len(Dash.employees)}

\* the ids of the entries of employee `emp_id`
HistoryIds(emp_id) == {k \in 1..Len(entries) : entries[k].emp_id = emp_id}

\* of those, the ones with fewer than three later entries
LastIds(emp_id) ==
    LET H == HistoryIds(emp_id)
    IN  {k \in H :
           Cardinality({j \in H : entries[j].timestamp > entries[k].timestamp}) < 3}

\* of those, the one no entry is later than
LatestId(emp_id) ==
    LET H == HistoryIds(emp_id)
    IN  CHOOSE k \in H : \A j \in H : entries[j].timestamp <= entries[k].timestamp

RECURSIVE BatterySum(_)
BatterySum(ids) ==
    IF ids = {} THEN 0
    ELSE LET k == CHOOSE x \in ids : TRUE
         IN  entries[k].battery + BatterySum(ids \ {k})

RECURSIVE AvgSum(_)
AvgSum(items) ==
    IF items = {} THEN 0
    ELSE LET r == CHOOSE x \in items : TRUE
         IN  r.avg_battery + AvgSum(items \ {r})

\* `avg` is total / count with the fraction dropped
IsTruncatedMean(avg, total, count) ==
    IF total >= 0
    THEN avg * count <= total /\ total < (avg + 1) * count
    ELSE total <= avg * count /\ (avg - 1) * count < total

\* the risk policy, as the specification words it
Tier(e) ==
    CASE e < 30 -> "High Risk"
      [] 30 <= e /\ e < 60 -> "Monitor"
      [] e >= 60 -> "Stable"

----------------------------------------------------------------------------
(* C1 *)

\* C1: for every employee with history, the dashboard's avg_battery is the
\* mean of the battery values of its last min(3, n) entries by timestamp,
\* cut toward zero, whatever the older entries hold, and its primary_driver
\* is that of the most recent entry alone.
C1_RollingAverage ==
    Fetched =>
        \A r \in Items :
            LET H == HistoryIds(r.id)
                W == LastIds(r.id)
            IN  H # {} =>
                  /\ Cardinality(W) = (IF Cardinality(H) < 3 THEN Cardinality(H) ELSE 3)
                  /\ IsTruncatedMean(r.avg_battery, BatterySum(W), Cardinality(W))
                  /\ r.primary_driver = entries[LatestId(r.id)].primary_driver

\* a dashboard with an employee of more than three entries, whose window sum
\* is negative and no multiple of three, and whose older entries differ from
\* every entry of the window
C1_Witness ==
    /\ Fetched
    /\ \E r \in Items :
          LET H == HistoryIds(r.id)
              W == LastIds(r.id)
          IN  /\ Cardinality(H) > 3
              /\ BatterySum(W) < 0
              /\ BatterySum(W) % 3 # 0
              /\ \E k \in H \ W : \A j \in W : entries[j].battery # entries[k].battery

----------------------------------------------------------------------------
(* C2 *)

\* C2: analyze_risk is total over the integers and gives High Risk below 30,
\* Monitor from 30 up to 59 and Stable from 60 on (29, 30, 59 and 60 fall as
\* these say), and every dashboard record's risk_status is the tier of its
\* avg_battery.
C2_RiskTiers ==
    /\ \A e \in (0 - EnergyRange)..EnergyRange :
          /\ analyze_risk(e) \in {"High Risk", "Monitor", "Stable"}
          /\ analyze_risk(e) = "High Risk" <=> e < 30
          /\ analyze_risk(e) = "Monitor" <=> (30 <= e /\ e < 60)
          /\ analyze_risk(e) = "Stable" <=> e >= 60
    /\ analyze_risk(29) = "High Risk"
    /\ analyze_risk(30) = "Monitor"
    /\ analyze_risk(59) = "Monitor"
    /\ analyze_risk(60) = "Stable"
    /\ Fetched => \A r \in Items : r.risk_status = Tier(r.avg_battery)

\* a dashboard with a negative average classified High Risk
C2_Witness ==
    /\ Fetched
    /\ \E r \in Items : r.avg_battery < 0 /\ r.risk_status = "High Risk"

----------------------------------------------------------------------------
(* C3 *)

\* C3: an employee without entries is on the dashboard all the same, with
\* avg_battery 50, its stored static_driver as primary_driver, risk_status
\* Monitor and an empty history, and its 50 counts in its department's mean.
C3_EmptyHistoryDefaults ==
    Fetched =>
        \A i \in 1..Len(employees) :
            HistoryIds(i) = {} =>
                /\ \E r \in Items :
                      /\ r.id = i
                      /\ r.name = employees[i].name
                      /\ r.avg_battery = 50
                      /\ r.primary_driver = employees[i].static_driver
                      /\ r.risk_status = "Monitor"
                      /\ r.history = <<>>
                /\ \E k \in 1..Len(Dash.department_data) :
                      LET others == {r \in Items : r.dept = employees[i].dept /\ r.id # i}
                      IN  /\ Dash.department_data[k].name = employees[i].dept
                          /\ IsTruncatedMean(Dash.department_data[k].energy,
                                             50 + AvgSum(others),
                                             1 + Cardinality(others))

\* a dashboard with an employee without entries, in a department with a
\* colleague whose average is not 50
C3_Witness ==
    /\ Fetched
    /\ \E i \in 1..Len(employees) :
          /\ HistoryIds(i) = {}
          /\ \E r \in Items :
                r.id # i /\ r.dept = employees[i].dept /\ r.avg_battery # 50

----------------------------------------------------------------------------
(* C4 *)

\* C4: department_data holds one record for each department string some
\* stored employee has (compared exactly, case included) and none for any
\* other, and a record's energy is the mean, cut toward zero, of the
\* avg_battery values of all employees of the department.
C4_DepartmentData ==
    Fetched =>
        LET depts == {employees[i].dept : i \in 1..Len(employees)}
            data == Dash.department_data
        IN  /\ Len(Dash.employees) = Len(employees)
            /\ \A i \in 1..Len(employees) :
                  /\ Dash.employees[i].id = i
                  /\ Dash.employees[i].dept = employees[i].dept
            /\ \A d \in depts : Cardinality({k \in 1..Len(data) : data[k].name = d}) = 1
            /\ \A k \in 1..Len(data) :
                  LET members == {r \in Items : r.dept = data[k].name}
                  IN  /\ data[k].name \in depts
                      /\ IsTruncatedMean(data[k].energy, AvgSum(members),
                                         Cardinality(members))

\* a dashboard with a department of two employees whose averages have an
\* odd sum
C4_Witness ==
    /\ Fetched
    /\ \E k \in 1..Len(Dash.department_data) :
          LET members == {r \in Items : r.dept = Dash.department_data[k].name}
          IN  Cardinality(members) = 2 /\ AvgSum(members) % 2 = 1


----------------------------------------------------------------------------
(* C5 *)

\* a step that appended an entry: a submit_vibe that returned success, for
\* the body request'
Submitted == entries' # entries

\* C5: a successful Submit leaves the employee of its name with the
\* submitted pressureSource as static_driver, whether or not the employee
\* existed or had entries, and changes no other employee's static_driver;
\* no other step changes a static_driver, so the last Submit under a name
\* wins.
C5_LastWriteWins ==
    [][ /\ Submitted =>
              LET target == FindEmployee(employees', UserName(request'))
              IN  /\ target # None
                  /\ employees'[target].static_driver = PrimaryDriver(request')
                  /\ \A i \in 1..Len(employees) :
                        i # target =>
                          employees'[i].static_driver = employees[i].static_driver
        /\ ~Submitted =>
              \A i \in 1..Len(employees) :
                  employees'[i].static_driver = employees[i].static_driver
      ]_vars

\* a successful Submit has just overwritten the static_driver of an employee
\* whose previous entry named another driver, next to a second employee
C5_Witness ==
    /\ response.kind = "submit"
    /\ response.status = 200
    /\ Len(employees) > 1
    /\ LET target == FindEmployee(employees, UserName(request))
           H == HistoryIds(target)
       IN  /\ Cardinality(H) > 1
           /\ employees[target].static_driver = PrimaryDriver(request)
           /\ \E k \in H \ {LatestId(target)} :
                 /\ \A j \in H \ {LatestId(target)} :
                       entries[j].timestamp <= entries[k].timestamp
                 /\ entries[k].primary_driver # PrimaryDriver(request)

----------------------------------------------------------------------------
(* C6 *)

\* C6: a Submit with battery b and pressureSource d under a name no stored
\* employee has creates the employee with static_driver d, and a dashboard
\* fetched before any further Submit under the name shows the employee with
\* one entry, avg_battery b, the tier of b, and primary_driver d.
C6_NewEmployeeFirstFetch ==
    /\ \A c \in created :
          /\ Cardinality({i \in 1..Len(employees) : employees[i].name = c.name}) = 1
          /\ \A i \in 1..Len(employees) :
                employees[i].name = c.name => employees[i].static_driver = c.driver
    /\ Fetched =>
          \A c \in created :
              \E r \in Items :
                  /\ r.name = c.name
                  /\ Len(r.history) = 1
                  /\ r.history[1].battery = c.battery
                  /\ r.avg_battery = c.battery
                  /\ r.risk_status = Tier(c.battery)
                  /\ r.primary_driver = c.driver

\* the dashboard after a first check-in with battery 90 and driver Team
C6_Witness ==
    /\ Fetched
    /\ \E c \in created :
          /\ c.battery = 90
          /\ c.driver = "Team"
          /\ \E r \in Items :
                r.name = c.name /\ r.risk_status = "Stable" /\ r.avg_battery = 90

----------------------------------------------------------------------------
(* C9 *)

\* C9: in every state reached from the seeded database by Submits, an
\* employee with entries has the primary_driver of its latest entry as
\* static_driver, so the dashboard's primary_driver is the stored
\* static_driver with or without history.
C9_DriverMatchesLatestEntry ==
    /\ \A i \in 1..Len(employees) :
          HistoryIds(i) # {} =>
            employees[i].static_driver = entries[LatestId(i)].primary_driver
    /\ Fetched =>
          \A r \in Items : r.primary_driver = employees[r.id].static_driver

\* a dashboard with an employee whose entries name two drivers and an
\* employee without entries
C9_Witness ==
    /\ Fetched
    /\ \E i \in 1..Len(employees) :
          \E j, k \in HistoryIds(i) :
              entries[j].primary_driver # entries[k].primary_driver
    /\ \E i \in 1..Len(employees) : HistoryIds(i) = {}

----------------------------------------------------------------------------
(* C7, C8, C10: what the code does not do *)

\* the body scores and converts: nothing in it makes the handler raise
WellFormed(data) == Polarity(VentText(data)).ok /\ Battery(data).ok

\* C7: under any interleaving of the steps of concurrent Submits, every
\* Submit (of a well-formed body) ends in success and leaves one new entry
\* on the one employee of its name.
C7_ConcurrentSubmitsSucceed ==
    \A i \in 1..Len(inflight) :
        LET r == inflight[i]
            named == {e \in 1..Len(employees) : employees[e].name = UserName(r.data)}
        IN  (r.pc = "done" /\ WellFormed(r.data)) =>
              /\ r.status = 200
              /\ r.new_entry # None
              /\ Cardinality(named) = 1
              /\ entries[r.new_entry].emp_id \in named

\* C8: a Submit whose sentiment scoring fails still succeeds, with
\* sentiment 0.0 in the response and in the persisted entry.
C8_ScoringFailureIsNeutral ==
    (response.kind = "submit" /\ ~Polarity(VentText(request)).ok) =>
        /\ response.status = 200
        /\ response.sentiment = 0
        /\ entries # <<>>
        /\ entries[Len(entries)].sentiment = 0
        /\ entries[Len(entries)].emp_id =
              FindEmployee(employees, UserName(request))

\* C10: a Submit that fails on the conversion of its battery leaves the
\* tables as they were, for a stored name and for a new one.
C10_FailedSubmitLeavesStore ==
    [][ ( /\ response'.kind = "submit"
          /\ response'.status = 500
          /\ Polarity(VentText(request')).ok
          /\ ~Battery(request').ok )
        => (employees' = employees /\ entries' = entries) ]_vars

============================================================================
